---- MODULE Spec2Model ----
(***************************************************************************)
(* Model of registry.Registry (registry/registry.go): Analyse and the      *)
(* dependency resolver collectExternalDependenciesFromData.                *)
(*                                                                         *)
(* Go strings are sequences of one-character strings, so that prefix,      *)
(* index, replace and path operations are computed character by character  *)
(* as the Go library computes them.                                        *)
(***************************************************************************)
EXTENDS Integers, Sequences, FiniteSets, TLC

(* ------------------------------------------------------------------ *)
(* Go "strings" package, on character sequences                        *)
(* ------------------------------------------------------------------ *)

SetMin(S) == CHOOSE x \in S : \A y \in S : x <= y

SetMax(S) == CHOOSE x \in S : \A y \in S : x >= y

\* the 0-based offsets at which sub occurs in s
Occurrences(s, sub) ==
  {j \in 0..(Len(s) - Len(sub)) : SubSeq(s, j + 1, j + Len(sub)) = sub}

MinOrNone(S) == IF S = {} THEN -1 ELSE SetMin(S)

MaxOrNone(S) == IF S = {} THEN -1 ELSE SetMax(S)

\* strings.Index: offset of the first occurrence, -1 when there is none
Index(s, sub) == MinOrNone(Occurrences(s, sub))

\* strings.LastIndex: offset of the last occurrence, -1 when there is none
LastIndex(s, sub) == MaxOrNone(Occurrences(s, sub))

HasPrefix(s, p) == Len(p) <= Len(s) /\ SubSeq(s, 1, Len(p)) = p

HasSuffix(s, p) == Len(p) <= Len(s) /\ SubSeq(s, Len(s) - Len(p) + 1, Len(s)) = p

\* strings.ReplaceAll for a non-empty old: non-overlapping occurrences, left to right
RECURSIVE ReplaceAll(_, _, _)
ReplaceAll(s, old, new) ==
  IF Len(s) < Len(old) THEN s
  ELSE IF SubSeq(s, 1, Len(old)) = old
       THEN new \o ReplaceAll(SubSeq(s, Len(old) + 1, Len(s)), old, new)
       ELSE <<s[1]>> \o ReplaceAll(SubSeq(s, 2, Len(s)), old, new)

\* strings.Split(s, sep) for a one-character sep: Len = number of sep + 1
RECURSIVE Split(_, _)
SplitAt(s, sep, at) ==
  IF at = -1 THEN <<s>>
  ELSE <<SubSeq(s, 1, at)>> \o Split(SubSeq(s, at + 2, Len(s)), sep)

Split(s, sep) == SplitAt(s, sep, Index(s, <<sep>>))

\* strings.Join(parts, sep)
RECURSIVE Join(_, _)
Join(parts, sep) ==
  IF Len(parts) = 0 THEN <<>>
  ELSE IF Len(parts) = 1 THEN parts[1]
  ELSE parts[1] \o sep \o Join(Tail(parts), sep)

(* ------------------------------------------------------------------ *)
(* Go "path" and "path/filepath" packages (unix build)                  *)
(* ------------------------------------------------------------------ *)

\* os.PathSeparator of the unix build
Separator == "/"

Dot == <<".">>

DotDot == <<".", ".">>

IsAbs(p) == Len(p) > 0 /\ p[1] = "/"

\* the elements Clean keeps, ".." resolved against what precedes it
RECURSIVE CleanElems(_, _, _)
CleanElems(elems, out, rooted) ==
  IF Len(elems) = 0 THEN out
  ELSE LET e == Head(elems)
           rest == Tail(elems)
       IN IF e = <<>> \/ e = Dot THEN CleanElems(rest, out, rooted)
          ELSE IF e = DotDot
               THEN IF Len(out) > 0 /\ out[Len(out)] # DotDot
                    THEN CleanElems(rest, SubSeq(out, 1, Len(out) - 1), rooted)
                    ELSE IF rooted THEN CleanElems(rest, out, rooted)
                    ELSE CleanElems(rest, Append(out, e), rooted)
               ELSE CleanElems(rest, Append(out, e), rooted)

OrDot(r) == IF Len(r) = 0 THEN Dot ELSE r

\* path.Clean / filepath.Clean
Clean(p) ==
  IF Len(p) = 0 THEN Dot
  ELSE OrDot((IF IsAbs(p) THEN <<"/">> ELSE <<>>)
               \o Join(CleanElems(Split(p, "/"), <<>>, IsAbs(p)), <<"/">>))

\* path.Join: the non-empty elements joined by "/", then cleaned
PathJoin(elems) ==
  LET ne == SelectSeq(elems, LAMBDA e : Len(e) > 0)
  IN IF Len(ne) = 0 THEN <<>> ELSE Clean(Join(ne, <<"/">>))

\* filepath.Dir: all but the last element, cleaned
Dir(p) == Clean(SubSeq(p, 1, LastIndex(p, <<"/">>) + 1))

\* filepath.Base for a path with no trailing slash
Base(p) ==
  IF Len(p) = 0 THEN Dot
  ELSE SubSeq(p, LastIndex(p, <<"/">>) + 2, Len(p))

ExtFrom(b, at) == IF at = -1 THEN <<>> ELSE SubSeq(b, at + 1, Len(b))

ExtOfBase(b) == ExtFrom(b, LastIndex(b, Dot))

\* filepath.Ext: the suffix of the last element from its last dot on
Ext(p) == ExtOfBase(Base(p))

\* filepath.ToSlash: every Separator becomes "/"
ToSlash(p) == [j \in 1..Len(p) |-> IF p[j] = Separator THEN "/" ELSE p[j]]

\* filepath.FromSlash: every "/" becomes Separator
FromSlash(p) == [j \in 1..Len(p) |-> IF p[j] = "/" THEN Separator ELSE p[j]]

\* length of the longest common prefix of two element lists
RECURSIVE CommonLen(_, _)
CommonLen(a, b) ==
  IF Len(a) = 0 \/ Len(b) = 0 \/ Head(a) # Head(b) THEN 0
  ELSE 1 + CommonLen(Tail(a), Tail(b))

\* the elements of a cleaned path ("." has none; a rooted path drops the root)
Elems(c) ==
  IF c = Dot \/ c = <<"/">> THEN <<>>
  ELSE IF IsAbs(c) THEN Split(SubSeq(c, 2, Len(c)), "/") ELSE Split(c, "/")

\* Rel past the first n elements, which the two paths share: ".." for
\* every element base has left, then what targ has left
RelFrom(be, te, n) ==
  IF n < Len(be) /\ be[n + 1] = DotDot THEN [ok |-> FALSE, path |-> <<>>]
  ELSE [ok |-> TRUE,
        path |-> Join([j \in 1..(Len(be) - n) |-> DotDot] \o SubSeq(te, n + 1, Len(te)),
                      <<"/">>)]

RelElems(be, te) == RelFrom(be, te, CommonLen(be, te))

RelClean(base, targ) ==
  IF targ = base THEN [ok |-> TRUE, path |-> Dot]
  ELSE IF IsAbs(base) # IsAbs(targ) THEN [ok |-> FALSE, path |-> <<>>]
  ELSE RelElems(Elems(base), Elems(targ))

\* filepath.Rel: [ok, path]; not ok when one path is rooted and the other
\* is not, or when base would have to be left through a ".." element
Rel(basepath, targpath) == RelClean(Clean(basepath), Clean(targpath))

(* ------------------------------------------------------------------ *)
(* Bounds and the input universe                                        *)
(* ------------------------------------------------------------------ *)

\* most files in one CodeGeneratorRequest
MaxFiles == 2

\* most message-field type references in the files of one request
MaxFields == 2

DotTs == <<".", "t", "s">>

\* the proto files a request may list: name, package, declared type names.
\* "a.p" and "[b.p" lie in one directory, "m.ts/x.p" one level below it;
\* that directory's name contains ".ts", the name "[b.p" makes a malformed
\* glob pattern, and package "p" is a textual prefix of package "p2".
ProtoUniverse ==
  { [Name |-> <<"a", ".", "p">>, Package |-> <<"p">>,
     Declares |-> {<<".", "p", ".", "A">>, <<".", "p", ".", "B">>}],
    [Name |-> <<"[", "b", ".", "p">>, Package |-> <<"p", "2">>,
     Declares |-> {<<".", "p", "2", ".", "C">>}],
    [Name |-> <<"m", ".", "t", "s", "/", "x", ".", "p">>, Package |-> <<"q">>,
     Declares |-> {<<".", "q", ".", "D">>}] }

ProtoNames == {d.Name : d \in ProtoUniverse}

Descriptor(name) == CHOOSE d \in ProtoUniverse : d.Name = name

\* every type name a field may carry
TypeNames == UNION {d.Declares : d \in ProtoUniverse}

\* sequences over S of length at most n
SeqsUpTo(S, n) == UNION {[1..m -> S] : m \in 0..n}

\* the lists of field types a file may have
FieldLists == SeqsUpTo(TypeNames, MaxFields)

\* sequences without repetition listing exactly the elements of S
Orderings(S) ==
  {q \in [1..Cardinality(S) -> S] : \A a, b \in 1..Cardinality(S) : a # b => q[a] # q[b]}

Range(q) == {q[j] : j \in 1..Len(q)}

\* the requests: up to MaxFiles distinct proto files in any order, any of
\* them marked for generation
Requests ==
  UNION { { [ProtoFile |-> q, FileToGenerate |-> g] : g \in SUBSET Range(q) } :
            q \in UNION {Orderings(S) : S \in {T \in SUBSET ProtoNames : Cardinality(T) <= MaxFiles}} }

\* working directory of the process
Cwd == <<"/", "w">>

\* the plugin parameters: ts_import_root and ts_import_root_alias, each
\* present or absent (absent is <<>>)
ParamMaps ==
  { [ts_import_root |-> r, ts_import_root_alias |-> a] :
      r \in {<<"/", "r">>}, a \in {<<>>, <<"@", "g">>} }

\* directories right under an import root that may hold pre-generated copies
\* of the proto tree; "r" repeats the root's own name
FsDirs == {<<"r">>, <<"s">>}

\* filepath.Glob lists matches in lexical order
FsDirOrder == << <<"r">>, <<"s">> >>

(* ------------------------------------------------------------------ *)
(* Errors                                                               *)
(* ------------------------------------------------------------------ *)

NilError == [wrap |-> <<>>, msg |-> "", args |-> <<>>]

\* errors.Errorf
Errorf(msg, args) == [wrap |-> <<>>, msg |-> msg, args |-> args]

\* errors.Wrap / errors.Wrapf: the message and its arguments go in front
Wrapf(err, msg, args) ==
  [wrap |-> <<[msg |-> msg, args |-> args]>> \o err.wrap, msg |-> err.msg, args |-> err.args]

(* ------------------------------------------------------------------ *)
(* data package helpers and the per-file analysis                        *)
(* ------------------------------------------------------------------ *)

\* data.GetTSFileName: the proto file's path with its extension replaced
\* by the output suffix
GetTSFileName(fileName) ==
  PathJoin(<<Dir(fileName),
             SubSeq(Base(fileName), 1, Len(Base(fileName)) - Len(Ext(fileName))) \o DotTs>>)

\* data.GetModuleName: the package without its dots, then the file's base
\* name without extension
GetModuleName(packageName, fileName) ==
  Join(Split(packageName, "."), <<>>)
    \o SubSeq(Base(fileName), 1, Len(Base(fileName)) - Len(Ext(fileName)))

\* getTSImportRootInformation
getTSImportRootInformation(paramsMap) ==
  LET given == IF paramsMap.ts_import_root = <<>> THEN Dot ELSE paramsMap.ts_import_root
      root == IF IsAbs(given) THEN given ELSE PathJoin(<<Cwd, given>>)
  IN [TSImportRoot |-> root, TSImportRootAlias |-> paramsMap.ts_import_root_alias]

\* isExternalDependenciesOutsidePackage
isExternalDependenciesOutsidePackage(fqTypeName, packageName) ==
  Index(fqTypeName, Dot \o packageName) # 0 /\ Index(fqTypeName, Dot) = 0

\* Registry.analyseFile, the rendering data of one file: its output name,
\* its fields with their externality flag, the field types flagged external
\* in field order, no dependencies yet
analyseFileData(d, fieldTypes) ==
  [TSFileName |-> GetTSFileName(d.Name),
   Fields |-> [j \in 1..Len(fieldTypes) |->
                 [Type |-> fieldTypes[j],
                  IsExternal |-> isExternalDependenciesOutsidePackage(fieldTypes[j], d.Package)]],
   ExternalDependingTypes |->
     SelectSeq(fieldTypes, LAMBDA t : isExternalDependenciesOutsidePackage(t, d.Package)),
   Dependencies |-> <<>>]

\* Registry.analyseFile, the registry after one file: every type the file
\* declares is registered under its fully qualified name
analyseFileTypes(types, d) ==
  [t \in (DOMAIN types) \cup d.Declares |->
     IF t \in d.Declares
     THEN [FullyQualifiedName |-> t, Package |-> d.Package, File |-> d.Name]
     ELSE types[t]]

(* ------------------------------------------------------------------ *)
(* The file system seen by filepath.Glob                                 *)
(* ------------------------------------------------------------------ *)

\* the directory that holds the pre-generated trees
FsRoot == <<"/", "r">>

\* a pattern whose elements are literal or "**" (one whole element)
\* matches a path element by element
ElemsMatch(pe, te) ==
  /\ Len(pe) = Len(te)
  /\ \A j \in 1..Len(pe) : pe[j] = <<"*", "*">> \/ pe[j] = te[j]

\* a pattern with elements pe matches the cleaned path p
PatternMatches(pe, rooted, p) ==
  /\ rooted = IsAbs(p)
  /\ ElemsMatch(pe, Elems(p))

\* the matches below the directories of order, in that order
RECURSIVE GlobIn(_, _, _, _)
GlobHere(pe, rooted, order, dirs, hits) ==
  (IF hits # {} THEN <<CHOOSE p \in hits : TRUE>> ELSE <<>>)
    \o GlobIn(pe, rooted, Tail(order), dirs)

GlobIn(pe, rooted, order, dirs) ==
  IF Len(order) = 0 THEN <<>>
  ELSE IF Head(order) \notin dirs THEN GlobIn(pe, rooted, Tail(order), dirs)
  ELSE GlobHere(pe, rooted, order, dirs,
                {p \in {PathJoin(<<FsRoot, Head(order), n>>) : n \in ProtoNames} :
                   PatternMatches(pe, rooted, p)})

\* filepath.Glob: ErrBadPattern for an unclosed "[", else the existing
\* paths that match, in lexical order
Glob(pattern, dirs) ==
  IF \E j \in 1..Len(pattern) : pattern[j] = "["
  THEN [ok |-> FALSE, matches |-> <<>>]
  ELSE [ok |-> TRUE,
        matches |-> GlobIn(Elems(Clean(pattern)), IsAbs(pattern), FsDirOrder, dirs)]

\* filepath.Abs, os.Getwd succeeding
Abs(p) == IF IsAbs(p) THEN Clean(p) ELSE PathJoin(<<Cwd, p>>)

(* ------------------------------------------------------------------ *)
(* State                                                                *)
(* ------------------------------------------------------------------ *)

VARIABLES
  toGenerate,        \* req.GetFileToGenerate(), as a set
  fsDirs,            \* the directories under FsRoot that hold the proto tree,
                     \* Unread until filepath.Glob first reads the file system
  Types,             \* Registry.Types: fully qualified name -> TypeInformation
  FilesToGenerate,   \* Registry.FilesToGenerate: name -> bool
  TSImportRoot,      \* Registry.TSImportRoot
  TSImportRootAlias, \* Registry.TSImportRootAlias
  pc,                \* where Analyse stands
  files,             \* req.GetProtoFile(), the part Analyse has still to range over
  data,              \* Analyse: file name -> *data.File
  visited,           \* collect: the files the outer range has finished
  cur,               \* collect: the file of the current outer iteration, <<>> between
  k,                 \* collect: index of the next name of ExternalDependingTypes
  dependencies,      \* collect: the current file's map identifier -> *data.Dependency
  result,            \* what Analyse returned: "none" (not yet), "nil", "data"
  err,               \* the error Analyse returned
  panicked           \* the runtime panic that ended the run, "" when none

vars == <<toGenerate, fsDirs, Types, FilesToGenerate, TSImportRoot, TSImportRootAlias,
          pc, files, data, visited, cur, k, dependencies, result, err, panicked>>

EmptyMap == [x \in {} |-> x]

\* the file system before its first read
Unread == {<<"?">>}

(* ------------------------------------------------------------------ *)
(* collectExternalDependenciesFromData, one type name                    *)
(* ------------------------------------------------------------------ *)

\* IsFileToGenerate
IsFileToGenerate(name) == name \in DOMAIN FilesToGenerate /\ FilesToGenerate[name]

\* a faulty key, one per type name instead of one per (Package, File)
IdentifierByTypeName(typeInfo) == typeInfo.FullyQualifiedName

\* identifier := typeInfo.Package + "|" + typeInfo.File
Identifier(typeInfo) == typeInfo.Package \o <<"|">> \o typeInfo.File

\* a faulty lookup error that leaves the type name out
AnonymousLookupMissError(typeName) == Errorf("cannot find type info for %s, $v", <<>>)

\* errors.Errorf("cannot find type info for %s, $v", typeName)
LookupMissError(typeName) == Errorf("cannot find type info for %s, $v", <<typeName>>)

\* the relative path taken from the current file itself, not its directory
RelativeToFile(base, target) == Rel(base, target)

\* filepath.Rel(filepath.Dir(base), target)
InRunRelative(base, target) == Rel(Dir(base), target)

\* a faulty variant that never puts "./" in front
BareRelative(slashSourceFile) == slashSourceFile

\* "./" in front unless the path starts with "../"
ExplicitRelative(slashSourceFile) ==
  IF Index(slashSourceFile, <<".", ".", "/">>) # 0
  THEN <<".", "/">> \o slashSourceFile
  ELSE slashSourceFile

\* sourceFile[0:strings.LastIndex(sourceFile, ".ts")]; a negative index panics
SliceTo(sourceFile, suffixIndex) ==
  IF suffixIndex < 0
  THEN [ok |-> FALSE, path |-> <<>>]
  ELSE [ok |-> TRUE, path |-> SubSeq(sourceFile, 1, suffixIndex)]

\* a faulty variant that cuts at the first ".ts", not the last
RemoveFromFirstTs(sourceFile) == SliceTo(sourceFile, Index(sourceFile, DotTs))

RemoveTsSuffix(sourceFile) == SliceTo(sourceFile, LastIndex(sourceFile, DotTs))

\* strings.ReplaceAll(absoluteTsFileName, r.TSImportRoot, r.TSImportRootAlias)
AliasPath(absoluteTsFileName, root, alias) == ReplaceAll(absoluteTsFileName, root, alias)

Computed(path) == [status |-> "ok", path |-> path, err |-> NilError]

Failed(e) == [status |-> "error", path |-> <<>>, err |-> e]

Panic(what) == [status |-> what, path |-> <<>>, err |-> NilError]

RelOrError(rel, msg, args) ==
  IF rel.ok THEN Computed(rel.path)
  ELSE Failed(Wrapf(Errorf("Rel: can't make relative", <<>>), msg, args))

\* the external branch once the glob has matched: alias substitution, or
\* the path relative to the directory of the current file's absolute name
LocatedSourceFile(base, absoluteTsFileName) ==
  IF TSImportRootAlias # <<>>
  THEN Computed(AliasPath(absoluteTsFileName, TSImportRoot, TSImportRootAlias))
  ELSE RelOrError(Rel(Dir(Abs(base)), absoluteTsFileName),
                  "error looking up relative path for source file %s", <<absoluteTsFileName>>)

GlobbedSourceFile(base, typeInfo, g) ==
  IF ~g.ok
  THEN Failed(Wrapf(Errorf("syntax error in pattern", <<>>),
                    "error looking up real path for proto file %s", <<typeInfo.File>>))
  ELSE IF Len(g.matches) = 0 THEN Panic("index out of range")
  ELSE LocatedSourceFile(base, GetTSFileName(g.matches[1]))

\* the branch for a target that is not generated in this run: glob for the
\* proto file under the import root, then alias or relative path
ExternalSourceFile(base, typeInfo, dirs) ==
  GlobbedSourceFile(base, typeInfo,
                    Glob(PathJoin(<<TSImportRoot, <<"*", "*">>, typeInfo.File>>), dirs))

SlashedSourceFile(rel) == Computed(FromSlash(ExplicitRelative(ToSlash(rel.path))))

\* the branch for a target generated in this run
InRunSourceFile(base, target) ==
  IF ~InRunRelative(base, target).ok
  THEN Failed(Wrapf(Errorf("Rel: can't make relative", <<>>),
                    "error getting relative path between for %s, %s", <<base, target>>))
  ELSE SlashedSourceFile(InRunRelative(base, target))

\* sourceFile as it stands before the suffix is removed
ComputedSourceFile(base, typeInfo, dirs) ==
  IF ~IsFileToGenerate(typeInfo.File)
  THEN ExternalSourceFile(base, typeInfo, dirs)
  ELSE InRunSourceFile(base, GetTSFileName(typeInfo.File))

Stripped(typeInfo, c, cutPath) ==
  IF c.status # "ok" THEN [status |-> c.status, err |-> c.err, dep |-> <<>>]
  ELSE IF ~cutPath.ok
       THEN [status |-> "slice bounds out of range", err |-> NilError, dep |-> <<>>]
       ELSE [status |-> "ok", err |-> NilError,
             dep |-> [ModuleIdentifier |-> GetModuleName(typeInfo.Package, typeInfo.File),
                      SourceFile |-> cutPath.path]]

StripComputed(typeInfo, c) == Stripped(typeInfo, c, RemoveTsSuffix(c.path))

\* the Dependency built for a not yet seen identifier, or how building it ended
NewDependency(base, typeInfo, dirs) ==
  StripComputed(typeInfo, ComputedSourceFile(base, typeInfo, dirs))

(* ------------------------------------------------------------------ *)
(* Actions                                                              *)
(* ------------------------------------------------------------------ *)

\* NewRegistry, then the call of Analyse
Init ==
  /\ \E req \in Requests :
       /\ files = req.ProtoFile
       /\ toGenerate = req.FileToGenerate
  /\ fsDirs = Unread
  /\ \E params \in ParamMaps :
       /\ TSImportRoot = getTSImportRootInformation(params).TSImportRoot
       /\ TSImportRootAlias = getTSImportRootInformation(params).TSImportRootAlias
  /\ Types = EmptyMap
  /\ FilesToGenerate = EmptyMap
  /\ pc = "start"
  /\ data = EmptyMap
  /\ visited = {}
  /\ cur = <<>>
  /\ k = 1
  /\ dependencies = EmptyMap
  /\ result = "none"
  /\ err = NilError
  /\ panicked = ""

\* Analyse: r.FilesToGenerate filled from the request
PopulateFilesToGenerate ==
  /\ pc = "start"
  /\ FilesToGenerate' = [n \in toGenerate |-> TRUE]
  /\ pc' = "analyse"
  /\ UNCHANGED <<toGenerate, fsDirs, Types, TSImportRoot, TSImportRootAlias, files, data,
                 visited, cur, k, dependencies, result, err, panicked>>

\* a faulty loop end that leaves the last file of the request out
AllButLastAnalysed == Len(files) <= 1

\* the first loop of Analyse has gone through every file of the request
AllAnalysed == Len(files) = 0

\* field type references in the files analysed so far
RECURSIVE FieldCount(_, _)
FieldCount(d, names) ==
  IF names = {} THEN 0
  ELSE LET n == CHOOSE x \in names : TRUE
       IN Len(d[n].Fields) + FieldCount(d, names \ {n})

\* Analyse: one iteration of "for _, f := range files"
AnalyseFile ==
  /\ pc = "analyse"
  /\ ~AllAnalysed
  /\ \E fieldTypes \in FieldLists :
       LET d == Descriptor(Head(files))
       IN /\ Len(fieldTypes) + FieldCount(data, DOMAIN data) <= MaxFields
          /\ Types' = analyseFileTypes(Types, d)
          /\ data' = (d.Name :> analyseFileData(d, fieldTypes)) @@ data
  /\ files' = Tail(files)
  /\ UNCHANGED <<toGenerate, fsDirs, FilesToGenerate, TSImportRoot, TSImportRootAlias, pc,
                 visited, cur, k, dependencies, result, err, panicked>>

\* Analyse: the call of collectExternalDependenciesFromData
StartCollect ==
  /\ pc = "analyse"
  /\ AllAnalysed
  /\ pc' = "collect"
  /\ UNCHANGED <<toGenerate, fsDirs, Types, FilesToGenerate, TSImportRoot, TSImportRootAlias,
                 files, data, visited, cur, k, dependencies, result, err, panicked>>

\* collect: the outer range takes a file (Go ranges a map in any order)
NextFile ==
  /\ pc = "collect"
  /\ cur = <<>>
  /\ \E f \in (DOMAIN data) \ visited : cur' = f
  /\ k' = 1
  /\ dependencies' = EmptyMap
  /\ UNCHANGED <<toGenerate, fsDirs, Types, FilesToGenerate, TSImportRoot, TSImportRootAlias,
                 pc, files, data, visited, result, err, panicked>>

\* a faulty loop end that stops after the first external type name
FirstResolved(f) == k > Len(data[f].ExternalDependingTypes) \/ k > 1

\* the inner loop has gone through every external type name of file f
FileResolved(f) == k > Len(data[f].ExternalDependingTypes)

\* Analyse returning the error of collect, wrapped, with a nil map
ReturnError(e) ==
  /\ pc' = "returned"
  /\ result' = "nil"
  /\ err' = Wrapf(e, "error collecting external dependency information after analysis finished", <<>>)
  /\ UNCHANGED <<k, dependencies, panicked>>

\* the run ending in a runtime panic
RaisePanic(what) ==
  /\ pc' = "panicked"
  /\ panicked' = what
  /\ UNCHANGED <<k, dependencies, result, err>>

\* the rest of an iteration whose identifier was not seen before
InsertBuilt(identifier, built) ==
  IF built.status = "ok"
  THEN /\ dependencies' = (identifier :> built.dep) @@ dependencies
       /\ k' = k + 1
       /\ UNCHANGED <<pc, result, err, panicked>>
  ELSE IF built.status = "error"
  THEN ReturnError(built.err)
  ELSE RaisePanic(built.status)

\* what filepath.Glob may find: the file system as first read, from then on
GlobViews == IF fsDirs = Unread THEN SUBSET FsDirs ELSE {fsDirs}

\* collect: one iteration of "for _, typeName := range ExternalDependingTypes"
ResolveType ==
  /\ pc = "collect"
  /\ cur # <<>>
  /\ ~FileResolved(cur)
  /\ LET typeName == data[cur].ExternalDependingTypes[k]
     IN IF typeName \notin DOMAIN Types
        THEN /\ ReturnError(LookupMissError(typeName))
             /\ UNCHANGED fsDirs
        ELSE IF Identifier(Types[typeName]) \in DOMAIN dependencies
        THEN /\ k' = k + 1
             /\ UNCHANGED <<pc, dependencies, result, err, panicked, fsDirs>>
        ELSE IF IsFileToGenerate(Types[typeName].File)
        THEN /\ InsertBuilt(Identifier(Types[typeName]),
                            NewDependency(data[cur].TSFileName, Types[typeName], fsDirs))
             /\ UNCHANGED fsDirs
        ELSE \E dirs \in GlobViews :
               /\ fsDirs' = dirs
               /\ InsertBuilt(Identifier(Types[typeName]),
                              NewDependency(data[cur].TSFileName, Types[typeName], dirs))
  /\ UNCHANGED <<toGenerate, Types, FilesToGenerate, TSImportRoot, TSImportRootAlias,
                 files, data, visited, cur>>

\* collect: the map's values appended to the file's Dependencies (Go ranges
\* the map in any order), and the outer iteration ends with its locals
AppendDependencies ==
  /\ pc = "collect"
  /\ cur # <<>>
  /\ FileResolved(cur)
  /\ \E order \in Orderings(DOMAIN dependencies) :
       data' = [data EXCEPT ![cur].Dependencies =
                  @ \o [j \in 1..Len(order) |-> dependencies[order[j]]]]
  /\ visited' = visited \cup {cur}
  /\ cur' = <<>>
  /\ k' = 1
  /\ dependencies' = EmptyMap
  /\ UNCHANGED <<toGenerate, fsDirs, Types, FilesToGenerate, TSImportRoot, TSImportRootAlias,
                 pc, files, result, err, panicked>>

\* collect returns nil and Analyse returns the data
ReturnData ==
  /\ pc = "collect"
  /\ cur = <<>>
  /\ visited = DOMAIN data
  /\ pc' = "returned"
  /\ result' = "data"
  /\ UNCHANGED <<toGenerate, fsDirs, Types, FilesToGenerate, TSImportRoot, TSImportRootAlias,
                 files, data, visited, cur, k, dependencies, err, panicked>>

Next ==
  \/ PopulateFilesToGenerate
  \/ AnalyseFile
  \/ StartCollect
  \/ NextFile
  \/ ResolveType
  \/ AppendDependencies
  \/ ReturnData

Spec == Init /\ [][Next]_vars
(* ------------------------------------------------------------------ *)
(* Properties                                                           *)
(* ------------------------------------------------------------------ *)

\* the registry entry behind a key of the current file's map
EntryOf(id) == Types[CHOOSE t \in DOMAIN Types : Identifier(Types[t]) = id]

\* the registry entry of the type name the inner loop stands at
EntryAtK == Types[data[cur].ExternalDependingTypes[k]]

\* the keys a step adds to the current file's map; every Dependency enters
\* that map in the step that builds it and is appended from there
Inserted == (DOMAIN dependencies') \ (DOMAIN dependencies)

\* the (Package, File) pairs behind the external type names of file f
PairsOf(f) ==
  {<<Types[t].Package, Types[t].File>> :
     t \in Range(data[f].ExternalDependingTypes) \cap DOMAIN Types}

\* collect is running or has ended
Resolving == pc \in {"collect", "returned", "panicked"}

\* collect ended with the error of a registry lookup miss
LookupMissed ==
  /\ pc = "returned"
  /\ result = "nil"
  /\ err.msg = "cannot find type info for %s, $v"

C2_ExternalUnlessInPackage ==
  \A f \in DOMAIN data :
    \A j \in 1..Len(data[f].Fields) :
      data[f].Fields[j].IsExternal =
        ~(\/ HasPrefix(data[f].Fields[j].Type, Dot \o Descriptor(f).Package \o Dot)
          \/ data[f].Fields[j].Type = Dot \o Descriptor(f).Package)

\* C3: a step of collect that meets a type name without registry entry ends
\* Analyse with the wrapped error naming that type and a nil map; it
\* resolves nothing, changes no file record, and nothing happens after it.
C3_LookupMissIsFatal ==
  [][ /\ (/\ pc = "collect"
          /\ cur # <<>>
          /\ k <= Len(data[cur].ExternalDependingTypes)
          /\ data[cur].ExternalDependingTypes[k] \notin DOMAIN Types)
        => /\ pc' = "returned"
           /\ result' = "nil"
           /\ err'.msg = "cannot find type info for %s, $v"
           /\ err'.args = <<data[cur].ExternalDependingTypes[k]>>
           /\ Len(err'.wrap) = 1
           /\ UNCHANGED <<data, visited, cur, k, dependencies, Types>>
      /\ pc = "returned" => UNCHANGED vars
    ]_vars

\* Analyse has returned the lookup error after an earlier file was finished
C3_Witness ==
  /\ LookupMissed
  /\ err.args = <<data[cur].ExternalDependingTypes[k]>>
  /\ visited # {}

\* C4: a glob without matches ends in a returned error, never in the
\* runtime panic of indexing the empty match list.
C4_NoMatchIsReturnedError ==
  ~(pc = "panicked" /\ panicked = "index out of range")

\* C5: with an alias configured, the import path of a file outside the run
\* is the located path with only its leading import root replaced by the
\* alias, and the suffix removed.
C5_AliasReplacesLeadingRoot ==
  \A id \in DOMAIN dependencies :
    (TSImportRootAlias # <<>> /\ ~IsFileToGenerate(EntryOf(id).File))
      => LET located ==
               GetTSFileName(Glob(PathJoin(<<TSImportRoot, <<"*", "*">>, EntryOf(id).File>>),
                                  fsDirs).matches[1])
         IN /\ HasPrefix(located, TSImportRoot)
            /\ dependencies[id].SourceFile \o DotTs =
                 TSImportRootAlias \o SubSeq(located, Len(TSImportRoot) + 1, Len(located))

C8_OnlyTrailingSuffixRemoved ==
  [][ \A id \in Inserted :
        \A c \in {ComputedSourceFile(data[cur].TSFileName, EntryAtK, fsDirs')} :
          /\ c.status = "ok"
          /\ HasSuffix(c.path, DotTs) => dependencies'[id].SourceFile \o DotTs = c.path
    ]_vars

\* a stored path that still holds a ".ts" inside a directory name
C8_Witness ==
  \E id \in DOMAIN dependencies : Occurrences(dependencies[id].SourceFile, DotTs) # {}

\* C9: once collect runs, every file of the request has been analysed, the
\* files-to-generate set is complete and every type a file of the request
\* declares is registered, so a lookup never misses such a type, whatever
\* the order of the files in the request.
C9_ResolveAfterAllAnalysed ==
  Resolving =>
    /\ files = <<>>
    /\ FilesToGenerate = [n \in toGenerate |-> TRUE]
    /\ \A f \in DOMAIN data :
         \A t \in Descriptor(f).Declares : t \in DOMAIN Types /\ Types[t].File = f
    /\ LookupMissed =>
         \A f \in DOMAIN data : err.args[1] \notin Descriptor(f).Declares

\* a file has resolved a type declared by the other file of the request
C9_Witness ==
  /\ Resolving
  /\ Cardinality(DOMAIN data) = 2
  /\ \E id \in DOMAIN dependencies : EntryOf(id).File \in (DOMAIN data) \ {cur}

\* C10: a file's Dependencies change only in the step that ends its own
\* iteration, after each of its external type names was resolved, and then
\* receive the Dependencies of the file's map and nothing else; a step
\* that ends collect with an error or a panic changes no file record, the
\* files not finished by then still have no Dependencies, and collect never
\* changes the registry.
C10_AllOrNothingPerFile ==
  [][ /\ \A f \in DOMAIN data :
           data'[f].Dependencies # data[f].Dependencies
             => /\ pc = "collect" /\ pc' = "collect"
                /\ f = cur
                /\ k > Len(data[f].ExternalDependingTypes)
                /\ \A t \in Range(data[f].ExternalDependingTypes) :
                     t \in DOMAIN Types /\ Identifier(Types[t]) \in DOMAIN dependencies
                /\ data[f].Dependencies = <<>>
                /\ Len(data'[f].Dependencies) = Cardinality(DOMAIN dependencies)
                /\ Range(data'[f].Dependencies) = {dependencies[id] : id \in DOMAIN dependencies}
      /\ pc = "collect" => Types' = Types
      /\ (pc = "collect" /\ pc' # "collect" /\ result' # "data")
           => /\ data' = data
              /\ \A f \in (DOMAIN data) \ visited : data'[f].Dependencies = <<>>
    ]_vars

\* collect failed at a file's second type name after resolving its first
C10_Witness ==
  /\ pc = "returned"
  /\ result = "nil"
  /\ cur # <<>>
  /\ dependencies # EmptyMap
  /\ data[cur].Dependencies = <<>>
====
